---- MODULE Spec2Model ----
(***************************************************************************)
(* Model of start_my_car.py: the get_device_key helper and the main()      *)
(* routine that authenticates against DroneMobile, lists the vehicles of   *)
(* the account and issues a remote start for the first one.                *)
(*                                                                         *)
(* Python values are modelled as records [t, s]: t is the Python type and  *)
(* s the literal.  A dict is an insertion-ordered sequence of <<key,       *)
(* value>> pairs with distinct keys, wrapped as [kind |-> "dict", items].  *)
(***************************************************************************)
EXTENDS Integers, Sequences, FiniteSets, TLC

\* ------------------------------------------------------------------ bounds
MaxKeys == 3        \* keys of a vehicle record explored for get_device_key
MaxVehicles == 2    \* vehicles returned by getAllVehicles
MaxFields == 2      \* fields of the response returned by start

\* ---------------------------------------------------------- Python values
None == [t |-> "none", s |-> ""]
StrV(s) == [t |-> "str", s |-> s]
IntV(s) == [t |-> "int", s |-> s]
BytesV(s) == [t |-> "bytes", s |-> s]

\* bool(v) as Python evaluates it in `if v`, `not v` and `v or []`
truthy(v) ==
    CASE v.t = "none" -> FALSE
      [] v.t = "int" -> v.s # "0"
      [] OTHER -> v.s # ""

Dict(items) == [kind |-> "dict", items |-> items]
\* a vehicle "record" that is not a mapping at all (a JSON null in the list)
NotAMapping == [kind |-> "none", items |-> << >>]

\* key in d
contains(d, key) == \E i \in 1..Len(d.items) : d.items[i][1] = key
\* d[key]
getitem(d, key) == d.items[CHOOSE i \in 1..Len(d.items) : d.items[i][1] = key][2]
\* mutant of list_keys: only the keys whose value is truthy are listed
list_keys_truthy(d) ==
    LET ks == SelectSeq(d.items, LAMBDA it : truthy(it[2]))
    IN [i \in 1..Len(ks) |-> ks[i][1]]

\* list(d.keys())
list_keys(d) == [i \in 1..Len(d.items) |-> d.items[i][1]]

\* all dicts over the given keys and values with at most n entries
DictsOver(keys, values, n) ==
    { Dict(items) : items \in UNION { { f \in [1..k -> keys \X values] :
                          \A i, j \in 1..k : f[i][1] = f[j][1] => i = j } : k \in 0..n } }

\* ------------------------------------------------------- get_device_key
\* mutant of CandidateKeys: deviceKey probed before device_key
CandidateKeys_reordered == <<"deviceKey", "device_key", "deviceID", "device_id">>

CandidateKeys == <<"device_key", "deviceKey", "deviceID", "device_id">>

\* mutant of probe: `if key in vehicle_info`, without the truthiness test
RECURSIVE probe_present_only(_, _)
probe_present_only(vehicle_info, i) ==
    IF i > Len(CandidateKeys)
    THEN [raised |-> "KeyError", value |-> None,
          keys |-> list_keys(vehicle_info), info |-> vehicle_info]
    ELSE LET key == CandidateKeys[i] IN
         IF contains(vehicle_info, key)
         THEN [raised |-> "", value |-> getitem(vehicle_info, key),
               keys |-> << >>, info |-> vehicle_info]
         ELSE probe_present_only(vehicle_info, i + 1)

\* the for loop of get_device_key from its i-th candidate on, then the raise
RECURSIVE probe(_, _)
probe(vehicle_info, i) ==
    IF i > Len(CandidateKeys)
    THEN [raised |-> "KeyError", value |-> None,
          keys |-> list_keys(vehicle_info), info |-> vehicle_info]
    ELSE LET key == CandidateKeys[i] IN
         IF contains(vehicle_info, key) /\ truthy(getitem(vehicle_info, key))
         THEN [raised |-> "", value |-> getitem(vehicle_info, key),
               keys |-> << >>, info |-> vehicle_info]
         ELSE probe(vehicle_info, i + 1)

\* get_device_key(vehicle_info): the outcome (raised = "" for a return), the
\* returned value, the keys listed in the KeyError message, and the record
\* as the call leaves it.  On a record that is not a mapping the first
\* `key in vehicle_info` raises TypeError.
get_device_key(vehicle_info) ==
    IF vehicle_info.kind # "dict"
    THEN [raised |-> "TypeError", value |-> None, keys |-> << >>, info |-> vehicle_info]
    ELSE probe(vehicle_info, 1)

\* ------------------------------------------------------------ json.dumps
RECURSIVE spaces(_)
spaces(n) == IF n = 0 THEN "" ELSE " " \o spaces(n - 1)

\* the JSON text of a scalar; bytes are not JSON serialisable
serialisable(v) == v.t # "bytes"
json_scalar(v) ==
    CASE v.t = "none" -> "null"
      [] v.t = "int" -> v.s
      [] OTHER -> "\"" \o v.s \o "\""

\* the lines of the items of a dict from the i-th on, in insertion order
RECURSIVE json_items(_, _, _)
json_items(items, i, indent) ==
    IF i > Len(items) THEN << >>
    ELSE << spaces(indent) \o "\"" \o items[i][1] \o "\": " \o json_scalar(items[i][2])
            \o (IF i < Len(items) THEN "," ELSE "") >>
         \o json_items(items, i + 1, indent)

\* mutant of json_dumps: the indent asked for is ignored, 4 is used
json_dumps_indent4(obj, indent) ==
    IF obj.kind # "dict" THEN [raised |-> "", text |-> << "null" >>]
    ELSE IF \E i \in 1..Len(obj.items) : ~serialisable(obj.items[i][2])
    THEN [raised |-> "TypeError", text |-> << >>]
    ELSE IF obj.items = << >> THEN [raised |-> "", text |-> << "{}" >>]
    ELSE [raised |-> "", text |-> << "{" >> \o json_items(obj.items, 1, 4) \o << "}" >>]

\* json.dumps(obj, indent=indent): the text as its sequence of lines, or the
\* TypeError of the encoder
json_dumps(obj, indent) ==
    IF obj.kind # "dict" THEN [raised |-> "", text |-> << "null" >>]
    ELSE IF \E i \in 1..Len(obj.items) : ~serialisable(obj.items[i][2])
    THEN [raised |-> "TypeError", text |-> << >>]
    ELSE IF obj.items = << >> THEN [raised |-> "", text |-> << "{}" >>]
    ELSE [raised |-> "", text |-> << "{" >> \o json_items(obj.items, 1, indent) \o << "}" >>]

\* ------------------------------------------------------------------ inputs
RecordKeys == {"device_key", "deviceKey", "deviceID", "device_id", "name"}
RecordValues == {None, StrV(""), IntV("0"), StrV("abc123"), StrV("k2")}
\* every vehicle record get_device_key is explored on
AllRecords == DictsOver(RecordKeys, RecordValues, MaxKeys) \cup {NotAMapping}

\* the vehicle records the collaborator returns to main
SampleRecords ==
    { Dict(<< <<"deviceKey", StrV("abc123")>>, <<"name", StrV("Car")>> >>),
      Dict(<< <<"name", StrV("Car")>> >>),
      Dict(<< <<"device_key", StrV("")>>, <<"device_id", StrV("k2")>> >>),
      Dict(<< <<"deviceID", IntV("0")>> >>),
      NotAMapping }
VehicleLists == UNION { [1..n -> SampleRecords] : n \in 0..MaxVehicles }
\* what getAllVehicles may return: None or a list
NoList == [kind |-> "none", items |-> << >>]
ListingResults == {NoList} \cup { [kind |-> "list", items |-> l] : l \in VehicleLists }

ResponseKeys == {"status", "code", "id"}
ResponseValues == {StrV("ok"), None, BytesV("raw")}
Responses == DictsOver(ResponseKeys, ResponseValues, MaxFields) \cup {NotAMapping}

\* os.environ.get(...) : None when unset, else the string
EnvValues == {None, StrV(""), StrV("alice")}
\* messages of the exceptions the collaborator raises
ErrMsgs == {"401 Unauthorized", "Connection timed out"}

\* ------------------------------------------------------------------- state
VARIABLES pc, username, password, calls, vehicles, key_result, device_key,
          response, stdout, stderr, exit_code, failed

vars == <<pc, username, password, calls, vehicles, key_result, device_key,
          response, stdout, stderr, exit_code, failed>>

NoResult == [raised |-> "", value |-> None, keys |-> << >>, info |-> NotAMapping]
Running == -1

\* a message printed to sys.stderr
Msg(prefix, cause, keys) == [prefix |-> prefix, cause |-> cause, keys |-> keys]
\* what the interpreter prints for an exception nobody caught
Traceback(exc) == Msg("Traceback (most recent call last):", exc, << >>)
\* one collaborator operation: its name, its argument, the message of the
\* exception it raised ("" when it returned) and the kind of value returned
Call(op, arg, exc, ret) == [op |-> op, arg |-> arg, exc |-> exc, ret |-> ret]

Init ==
    /\ pc = "env"
    /\ username \in EnvValues
    /\ password \in EnvValues
    /\ calls = << >>
    /\ vehicles = << >>
    /\ key_result = NoResult
    /\ device_key = None
    /\ response = NotAMapping
    /\ stdout = << >>
    /\ stderr = << >>
    /\ exit_code = Running
    /\ failed = ""

\* sys.exit(1) after print(msg, file=sys.stderr)
Fail(step, msg) ==
    /\ stderr' = Append(stderr, msg)
    /\ exit_code' = 1
    /\ failed' = step
    /\ pc' = "done"

\* an exception nobody catches: the interpreter prints the traceback and
\* exits with status 1
Uncaught(step, exc) ==
    /\ stderr' = Append(stderr, Traceback(exc))
    /\ exit_code' = 1
    /\ failed' = step
    /\ pc' = "done"

\* lines 77-81: the credentials are not both set
MissingCredentials ==
    Fail("env", Msg("Error: Both DRONEMOBILE_USERNAME and DRONEMOBILE_PASSWORD must be set as environment variables.", "", << >>))

\* mutant of ReadEnv: `if not username and not password`
ReadEnv_and ==
    /\ pc = "env"
    /\ IF ~truthy(username) /\ ~truthy(password)
       THEN MissingCredentials
       ELSE /\ pc' = "construct"
            /\ UNCHANGED <<stderr, exit_code, failed>>
    /\ UNCHANGED <<username, password, calls, vehicles, key_result, device_key,
                   response, stdout>>

\* lines 74-81: read the credentials, exit 1 unless both are non-empty
ReadEnv ==
    /\ pc = "env"
    /\ IF ~truthy(username) \/ ~truthy(password)
       THEN MissingCredentials
       ELSE /\ pc' = "construct"
            /\ UNCHANGED <<stderr, exit_code, failed>>
    /\ UNCHANGED <<username, password, calls, vehicles, key_result, device_key,
                   response, stdout>>

\* mutant of AuthError: the message of the exception is left out
AuthError_nocause(m) == Msg("Error during authentication or vehicle retrieval: ", "", << >>)

\* line 90: the message printed by the handler of lines 89-91
AuthError(m) == Msg("Error during authentication or vehicle retrieval: ", m, << >>)

\* line 84 under the handler of lines 89-91: Vehicle(username, password)
Construct ==
    /\ pc = "construct"
    /\ \/ /\ calls' = Append(calls, Call("Vehicle", None, "", "client"))
          /\ pc' = "auth"
          /\ UNCHANGED <<stderr, exit_code, failed>>
       \/ \E m \in ErrMsgs :
          /\ calls' = Append(calls, Call("Vehicle", None, m, ""))
          /\ Fail("construct", AuthError(m))
    /\ UNCHANGED <<username, password, vehicles, key_result, device_key, response, stdout>>

\* line 87 under the handler of lines 89-91: vehicle_client.auth()
Auth ==
    /\ pc = "auth"
    /\ \/ /\ calls' = Append(calls, Call("auth", None, "", "none"))
          /\ pc' = "list"
          /\ UNCHANGED <<stderr, exit_code, failed>>
       \/ \E m \in ErrMsgs :
          /\ calls' = Append(calls, Call("auth", None, m, ""))
          /\ Fail("auth", AuthError(m))
    /\ UNCHANGED <<username, password, vehicles, key_result, device_key, response, stdout>>

\* getAllVehicles() or []: the list returned, or [] for None and for []
or_empty(r) == IF r.kind = "list" /\ r.items # << >> THEN r.items ELSE << >>

\* mutant of NoVehicles: sys.exit() without a status, that is 0
NoVehicles_exit0 ==
    /\ stderr' = Append(stderr, Msg("Error: No vehicles were found on your DroneMobile account.", "", << >>))
    /\ exit_code' = 0
    /\ failed' = "empty"
    /\ pc' = "done"

\* lines 94-95: the account has no vehicles
NoVehicles ==
    Fail("empty", Msg("Error: No vehicles were found on your DroneMobile account.", "", << >>))

\* lines 102-104: get_device_key raised KeyError; the message is the
\* "Device key not found in vehicle info: %s" of line 63 with the keys
DeviceKeyError(keys) ==
    Fail("key", Msg("Error extracting device key: ", "Device key not found in vehicle info: ", keys))

\* mutant of CommandError: the message of the authentication handler
CommandError_authprefix(m) ==
    Fail("start", Msg("Error during authentication or vehicle retrieval: ", m, << >>))

\* lines 108-110: start raised
CommandError(m) ==
    Fail("start", Msg("Error issuing remote start command: ", m, << >>))

\* mutant of Succeed: the response is not printed
Succeed_noprint(text) ==
    /\ exit_code' = 0
    /\ pc' = "done"
    /\ UNCHANGED <<stdout, stderr, failed>>

\* line 113 and the return of main: print the text; the exit status is 0
Succeed(text) ==
    /\ stdout' = Append(stdout, text)
    /\ exit_code' = 0
    /\ pc' = "done"
    /\ UNCHANGED <<stderr, failed>>

\* mutant of select_vehicle: vehicles[-1]
select_last_vehicle(vs) == vs[Len(vs)]

\* line 99: first_vehicle = vehicles[0]
select_vehicle(vs) == vs[1]

\* lines 88-104: list the vehicles (None counts as no vehicles), exit 1 when
\* there are none, else take the first one and extract its device key; only
\* the KeyError of get_device_key is handled, any other exception propagates
GetAllVehicles ==
    /\ pc = "list"
    /\ \/ \E r \in ListingResults :
          LET vs == or_empty(r)
              kr == get_device_key(select_vehicle(vs))
          IN /\ calls' = Append(calls, Call("getAllVehicles", None, "", r.kind))
             /\ IF vs = << >>
                THEN /\ NoVehicles
                     /\ vehicles' = vs
                     /\ UNCHANGED <<key_result, device_key>>
                ELSE /\ key_result' = kr
                     /\ vehicles' = vs
                     /\ IF kr.raised = "KeyError"
                        THEN /\ DeviceKeyError(kr.keys)
                             /\ UNCHANGED device_key
                        ELSE IF kr.raised # ""
                        THEN /\ Uncaught("key", kr.raised)
                             /\ UNCHANGED device_key
                        ELSE /\ device_key' = kr.value
                             /\ pc' = "start"
                             /\ UNCHANGED <<stderr, exit_code, failed>>
       \/ \E m \in ErrMsgs :
          /\ calls' = Append(calls, Call("getAllVehicles", None, m, ""))
          /\ Fail("list", AuthError(m))
          /\ UNCHANGED <<vehicles, key_result, device_key>>
    /\ UNCHANGED <<username, password, response, stdout>>

\* lines 106-113: start the vehicle; on a response, print its JSON text
\* indented by 2 and fall off the end of main (exit status 0)
Start ==
    /\ pc = "start"
    /\ \/ \E resp \in Responses :
          LET d == json_dumps(resp, 2)
          IN /\ calls' = Append(calls, Call("start", device_key, "", resp.kind))
             /\ response' = resp
             /\ IF d.raised # ""
                THEN /\ Uncaught("dumps", d.raised)
                     /\ UNCHANGED stdout
                ELSE Succeed(d.text)
       \/ \E m \in ErrMsgs :
          /\ calls' = Append(calls, Call("start", device_key, m, ""))
          /\ CommandError(m)
          /\ UNCHANGED <<response, stdout>>
    /\ UNCHANGED <<username, password, vehicles, key_result, device_key>>

Next == ReadEnv \/ Construct \/ Auth \/ GetAllVehicles \/ Start

Spec == Init /\ [][Next]_vars

\* ---------------------------------------- get_device_key on its own
\* one call of get_device_key on an arbitrary record
InitKey ==
    /\ pc = "probe"
    /\ vehicles \in { << r >> : r \in AllRecords }
    /\ username = None
    /\ password = None
    /\ calls = << >>
    /\ key_result = NoResult
    /\ device_key = None
    /\ response = NotAMapping
    /\ stdout = << >>
    /\ stderr = << >>
    /\ exit_code = Running
    /\ failed = ""

ProbeKey ==
    /\ pc = "probe"
    /\ key_result' = get_device_key(vehicles[1])
    /\ vehicles' = << key_result'.info >>
    /\ pc' = "probed"
    /\ UNCHANGED <<username, password, calls, device_key, response, stdout,
                   stderr, exit_code, failed>>

NextKey == ProbeKey

SpecKey == InitKey /\ [][NextKey]_vars

\* ================================================================ claims
\* Reference notions used by the properties, stated independently of the
\* operators that model the code.
Priority == <<"device_key", "deviceKey", "deviceID", "device_id">>
IsFalsy(v) == v \in {None, StrV(""), IntV("0")}
Present(rec, k) == \E i \in 1..Len(rec.items) : rec.items[i][1] = k
ValueOf(rec, k) ==
    CHOOSE v \in { rec.items[i][2] : i \in 1..Len(rec.items) } :
        \E i \in 1..Len(rec.items) : rec.items[i] = <<k, v>>
PresentIdx(rec) == { i \in 1..Len(Priority) : Present(rec, Priority[i]) }
Usable(rec) == { i \in PresentIdx(rec) : ~IsFalsy(ValueOf(rec, Priority[i])) }
Least(S) == CHOOSE i \in S : \A j \in S : i <= j
IsMapping(rec) == rec.kind = "dict"
HasUsableKey(rec) == IsMapping(rec) /\ Usable(rec) # {}
UsableKey(rec) == ValueOf(rec, Priority[Least(Usable(rec))])

Order == <<"Vehicle", "auth", "getAllVehicles", "start">>
Absent(cred) == cred = None \/ cred = StrV("")
Returned(i) == Len(calls) >= i /\ calls[i].exc = ""
Raised(i) == Len(calls) >= i /\ calls[i].exc # ""
StartReturned == Returned(4)

\* C1: the collaborator operations occur only in the order construct, auth,
\* getAllVehicles, start, each at most once; start is invoked only if both
\* credentials are non-empty, the three earlier operations returned, the
\* vehicle list is non-empty and its first record yields a key; after a
\* failure no collaborator operation is invoked any more, and none at all
\* when a credential is absent or empty.
C1_State ==
    /\ Len(calls) <= Len(Order)
    /\ \A i \in 1..Len(calls) : calls[i].op = Order[i]
    /\ \A i \in 1..Len(calls) : i < Len(calls) => calls[i].exc = ""
    /\ Len(calls) = 4 =>
          /\ ~Absent(username) /\ ~Absent(password)
          /\ vehicles # << >>
          /\ HasUsableKey(vehicles[1])
    /\ (Absent(username) \/ Absent(password)) => calls = << >>
C1_FixedOrderFailFast ==
    /\ []C1_State
    /\ [][(failed # "" \/ exit_code # Running) => calls' = calls]_vars
\* start has been invoked at the end of a full sequence
C1_Witness == pc = "done" /\ Len(calls) = 4 /\ calls[4].op = "start"

\* C2: a run ends with exit code 0 or 1 and no other: 0 exactly on success
\* (start returned and its response was printed), 1 for missing
\* credentials, authentication/listing failure, no vehicles, device-key
\* failure, command failure and for an exception that is not handled.
C2_ExitCodes ==
    /\ (pc = "done") <=> (exit_code # Running)
    /\ pc = "done" =>
          /\ exit_code \in {0, 1}
          /\ (exit_code = 0) <=> (StartReturned /\ stdout # << >> /\ stderr = << >>)
          /\ (Absent(username) \/ Absent(password)) => exit_code = 1
          /\ (\E i \in 1..Len(calls) : calls[i].exc # "") => exit_code = 1
          /\ (Returned(3) /\ vehicles = << >>) => exit_code = 1
          /\ (Returned(3) /\ vehicles # << >> /\ ~HasUsableKey(vehicles[1])) => exit_code = 1
          /\ (StartReturned /\ stdout = << >>) => exit_code = 1
\* a run ended by an exception nobody handles: a response that cannot be
\* serialised
C2_Witness ==
    /\ pc = "done" /\ exit_code = 1 /\ StartReturned
    /\ \E i \in 1..Len(response.items) : response.items[i][2] = BytesV("raw")

\* the JSON text of a scalar and the 2-space-indented text of a response,
\* line by line
RefScalar(v) ==
    IF v = None THEN "null"
    ELSE IF v = StrV("ok") THEN "\"ok\""
    ELSE "?"
RefLine(item, last) ==
    "  \"" \o item[1] \o "\": " \o RefScalar(item[2]) \o (IF last THEN "" ELSE ",")
RefSerialisation(resp) ==
    IF ~IsMapping(resp) THEN << "null" >>
    ELSE IF resp.items = << >> THEN << "{}" >>
    ELSE [ i \in 1..(Len(resp.items) + 2) |->
             IF i = 1 THEN "{"
             ELSE IF i = Len(resp.items) + 2 THEN "}"
             ELSE RefLine(resp.items[i - 1], i - 1 = Len(resp.items)) ]

\* C3: standard output is written only on the success path: if anything is
\* written then start returned, and what is written is exactly the
\* 2-space-indented serialisation of the response, every field in the
\* order returned; a run that fails leaves standard output empty.
C3_StdoutOnlyOnSuccess ==
    /\ stdout # << >> =>
          /\ StartReturned
          /\ stdout = << RefSerialisation(response) >>
    /\ (pc = "done" /\ exit_code # 0) => stdout = << >>
\* a response of two fields has been printed
C3_Witness ==
    /\ pc = "done" /\ Len(stdout) = 1 /\ Len(response.items) = 2
    /\ stdout[1][2] = "  \"status\": \"ok\","

\* the record with every falsy candidate entry taken out
WithoutFalsyCandidates(rec) ==
    Dict(SelectSeq(rec.items,
           LAMBDA it : ~((\E i \in 1..Len(Priority) : Priority[i] = it[1]) /\ IsFalsy(it[2]))))
Probed == pc = "probed" /\ IsMapping(vehicles[1])

C5_EarliestPresent ==
    (Probed /\ Cardinality(PresentIdx(vehicles[1])) >= 2 /\ key_result.raised = "") =>
        key_result.value = ValueOf(vehicles[1], Priority[Least(PresentIdx(vehicles[1]))])

\* C5: with several candidate keys present, at least one of them truthy,
\* get_device_key returns the value of the earliest candidate that is
\* present with a truthy value, even if a later candidate is truthy too.
C5_EarliestTruthyOfSeveral ==
    (Probed /\ Cardinality(PresentIdx(vehicles[1])) >= 2 /\ Usable(vehicles[1]) # {}) =>
        /\ key_result.raised = ""
        /\ \E i \in Usable(vehicles[1]) :
              /\ key_result.value = ValueOf(vehicles[1], Priority[i])
              /\ \A j \in Usable(vehicles[1]) : i <= j
\* two truthy candidates with different values: the earlier one is returned
C5_Witness ==
    /\ Probed
    /\ Cardinality(Usable(vehicles[1])) >= 2
    /\ \E i, j \in Usable(vehicles[1]) :
          /\ i < j
          /\ ValueOf(vehicles[1], Priority[i]) # ValueOf(vehicles[1], Priority[j])
          /\ key_result.value = ValueOf(vehicles[1], Priority[i])

\* C6: get_device_key fails exactly when no candidate key is present with a
\* truthy value; the failure message lists exactly the keys present on the
\* record, each once; the record is left unchanged by the call.
C6_State ==
    Probed =>
       LET rec == vehicles[1] IN
       /\ key_result.raised \in {"", "KeyError"}
       /\ (key_result.raised = "KeyError") <=> (Usable(rec) = {})
       /\ key_result.raised = "KeyError" =>
             /\ { key_result.keys[i] : i \in 1..Len(key_result.keys) }
                   = { rec.items[i][1] : i \in 1..Len(rec.items) }
             /\ Len(key_result.keys) = Len(rec.items)
       /\ key_result.raised = "" => key_result.keys = << >>
ConfigPrefix == "Error: Both DRONEMOBILE_USERNAME and DRONEMOBILE_PASSWORD must be set as environment variables."
AuthPrefix == "Error during authentication or vehicle retrieval: "
NoVehiclesPrefix == "Error: No vehicles were found on your DroneMobile account."
DeviceKeyPrefix == "Error extracting device key: "
CommandPrefix == "Error issuing remote start command: "
TracebackPrefix == "Traceback (most recent call last):"
Done == pc = "done"
StartInvoked == \E i \in 1..Len(calls) : calls[i].op = "start"

\* C7: after construction and auth returned, a null result of getAllVehicles
\* counts as an empty list and the run fails with "No vehicles were found",
\* not as an authentication error; an exception raised by construction,
\* auth or getAllVehicles is reported as "Error during authentication or
\* vehicle retrieval" followed by its message; in all these cases the run
\* exits 1 and start is never invoked.
C7_ListingOutcome ==
    /\ (Returned(3) /\ calls[3].ret = "none") =>
          /\ vehicles = << >>
          /\ Done /\ exit_code = 1 /\ ~StartInvoked
          /\ stderr = << [prefix |-> NoVehiclesPrefix, cause |-> "", keys |-> << >>] >>
    /\ (Returned(3) /\ vehicles = << >>) =>
          /\ Done /\ exit_code = 1 /\ ~StartInvoked
          /\ Len(stderr) = 1 /\ stderr[1].prefix = NoVehiclesPrefix
    /\ \A i \in 1..3 : Raised(i) =>
          /\ Done /\ exit_code = 1 /\ ~StartInvoked
          /\ stderr = << [prefix |-> AuthPrefix, cause |-> calls[i].exc, keys |-> << >>] >>
\* getAllVehicles returned None after a successful auth
C7_Witness ==
    /\ Returned(2) /\ Returned(3) /\ calls[3].ret = "none"
    /\ Done /\ stderr[1].prefix = NoVehiclesPrefix

C9_OneCategoryMessage ==
    Done =>
       /\ exit_code = 0 => stderr = << >>
       /\ exit_code # 0 =>
             /\ Len(stderr) = 1
             /\ stderr[1].prefix \in {ConfigPrefix, AuthPrefix, NoVehiclesPrefix,
                                      DeviceKeyPrefix, CommandPrefix}
       /\ (Returned(3) /\ vehicles # << >> /\ ~StartInvoked) =>
             stderr[1].prefix = DeviceKeyPrefix
       /\ Raised(4) => stderr[1].prefix = CommandPrefix

\* C9: a failed run writes exactly one message to standard error.  For the
\* five handled failures it is the message of the category of the first
\* step that failed, with the cause where there is one: missing
\* credentials, an exception of construction, auth or listing, no vehicles,
\* a first record that is a mapping without usable key (with the keys
\* present), an exception of start.  An exception that is not handled (key
\* extraction from a record that is not a mapping, serialisation of the
\* response) is reported by the traceback of the interpreter instead.  A
\* successful run writes nothing to standard error.
C9_OneMessagePerFailure ==
    Done =>
       /\ exit_code = 0 => stderr = << >>
       /\ exit_code # 0 => Len(stderr) = 1
       /\ (Absent(username) \/ Absent(password)) =>
             stderr = << [prefix |-> ConfigPrefix, cause |-> "", keys |-> << >>] >>
       /\ \A i \in 1..3 : Raised(i) =>
             stderr = << [prefix |-> AuthPrefix, cause |-> calls[i].exc, keys |-> << >>] >>
       /\ (Returned(3) /\ vehicles = << >>) =>
             stderr = << [prefix |-> NoVehiclesPrefix, cause |-> "", keys |-> << >>] >>
       /\ (Returned(3) /\ vehicles # << >> /\ IsMapping(vehicles[1]) /\ Usable(vehicles[1]) = {}) =>
             /\ stderr[1].prefix = DeviceKeyPrefix
             /\ stderr[1].keys = [ i \in 1..Len(vehicles[1].items) |-> vehicles[1].items[i][1] ]
       /\ (Returned(3) /\ vehicles # << >> /\ ~IsMapping(vehicles[1])) =>
             stderr[1].prefix = TracebackPrefix
       /\ Raised(4) =>
             stderr = << [prefix |-> CommandPrefix, cause |-> calls[4].exc, keys |-> << >>] >>
       /\ (StartReturned /\ exit_code # 0) => stderr[1].prefix = TracebackPrefix
\* start raised and the run reported the command error with its cause
C9_Witness ==
    /\ Done /\ Raised(4)
    /\ stderr = << [prefix |-> CommandPrefix, cause |-> "Connection timed out", keys |-> << >>] >>

\* C10 as stated: whenever start returns without raising, the response is
\* printed and the exit code is 0; a run that exits non-zero is one in which
\* start returned no response.
C10_StartReturnedMeansSuccess ==
    /\ StartReturned => (Done /\ exit_code = 0 /\ Len(stdout) = 1)
    /\ (Done /\ exit_code # 0) => ~StartReturned

Serialisable(resp) ==
    \A i \in 1..Len(resp.items) : resp.items[i][2] # BytesV("raw")

\* C10: whenever start returns a response that can be serialised as JSON,
\* the run ends in success: the response is printed to standard output and
\* the exit code is 0; a run that exits non-zero is one in which start was
\* never invoked, raised, or returned a response that cannot be serialised.
C10_SerialisableResponseMeansSuccess ==
    /\ (StartReturned /\ Serialisable(response)) =>
          (Done /\ exit_code = 0 /\ Len(stdout) = 1)
    /\ (Done /\ exit_code # 0) =>
          (~StartInvoked \/ Raised(4) \/ (StartReturned /\ ~Serialisable(response)))
\* start returned a response with a field and the run succeeded
C10_Witness ==
    /\ Done /\ StartReturned /\ Len(response.items) >= 1
    /\ exit_code = 0 /\ Len(stdout) = 1
====
